---- MODULE Spec2Model ----
(***************************************************************************)
(* State-machine model of scripts/fetch_ids.py: the HTTP access layer      *)
(* (get_json), the response parser (extract_year, extract_iso3), the       *)
(* country resolver (fetch_source6_countries), year discovery              *)
(* (find_latest_year), the series fetcher (fetch_series_range) and main.   *)
(*                                                                         *)
(* Python strings are modelled as sequences of one-character strings, so   *)
(* that slicing, str() and int() are computed and not assumed.             *)
(***************************************************************************)
EXTENDS Integers, Sequences, FiniteSets, TLC

VARIABLES
    pc,          \* where main is: the call site of the running get_json call, or an end state
    call,        \* the get_json call in progress or just ended: url, attempt, last, status, result
    jsonErrIsRequestException, \* does r.json() raise a requests.RequestException subclass (requests >= 2.27)
    seen,        \* fetch_source6_countries: the fallback's dict of derived countries
    countries,   \* main: the resolved country list
    countriesFile, \* data/countries.json: whether this run wrote it, and the list written
    i,           \* main: enumerate index of the country being processed (1-based)
    found,       \* find_latest_year: best when its loop has ended, "" when no record yielded a year
    end,         \* main: int(latest) of the country being processed
    years,       \* main: the window of the country being processed
    series_map,  \* main: the series fetched so far for the country being processed
    files,       \* data/{ISO3}.json files written in this run: country id -> dataset
    opened,      \* the data/{ISO3}.json file open for writing, truncated and not yet written: <<id>>, or <<>>
    stdout,      \* progress lines of completed countries
    stderr,      \* failure lines
    exitCode,    \* process exit code: <<>> while running, <<code>> once the process has ended
    pacing,      \* number of pacing delays _sleep_backoff(0) taken for the country being processed
    sent,        \* requests SESSION.get has sent for country resolution, or for the current
                 \* country; counted in the world "budget" only, 0 elsewhere
    xin,         \* parser harness: the tuple list handed to the extraction functions
    xout         \* parser harness: their results

vars == <<pc, call, jsonErrIsRequestException, seen, countries, countriesFile, i,
          found, end, years, series_map, files, opened, stdout, stderr, exitCode, pacing, sent, xin, xout>>

-----------------------------------------------------------------------------
(* Bounds of the model *)

\* longest run of digits in a generated token
MaxDigits == 4
\* most tuples in a tuple list handed to the parser harness
MaxTuples == 2
\* most entries in a country-list response
MaxEntries == 2
\* most records in a source.data response
MaxRows == 2

-----------------------------------------------------------------------------
(* Python string primitives *)

Digits == {"0", "1", "2", "3", "4", "5", "6", "7", "8", "9"}
DigitSeq == <<"0", "1", "2", "3", "4", "5", "6", "7", "8", "9">>
UpperSeq == <<"A", "B", "C", "D", "E", "F", "G", "H", "I", "J", "K", "L", "M",
              "N", "O", "P", "Q", "R", "S", "T", "U", "V", "W", "X", "Y", "Z">>
LowerSeq == <<"a", "b", "c", "d", "e", "f", "g", "h", "i", "j", "k", "l", "m",
              "n", "o", "p", "q", "r", "s", "t", "u", "v", "w", "x", "y", "z">>
UpperLetters == {UpperSeq[k] : k \in 1..26}
LowerLetters == {LowerSeq[k] : k \in 1..26}
\* one character that is a letter without case (str.isalpha() holds, it is neither upper
\* nor lower case): the ideograph U+4E2D
UncasedLetter == "U+4E2D"
\* one character that str.isdigit() accepts and int() rejects: superscript two, U+00B2
SuperscriptTwo == "U+00B2"

Min(a, b) == IF a < b THEN a ELSE b
Max(a, b) == IF a > b THEN a ELSE b

\* a JSON key that is missing or null: v.get(key) is None
Absent == <<"None">>
\* x is truthy for Python's `or`
Truthy(x) == x # Absent /\ x # <<>>
\* a or b or ""
OrElse(a, b) == IF Truthy(a) THEN a ELSE IF Truthy(b) THEN b ELSE <<>>
\* str(x): str(None) is "None", a string is itself
StrOf(x) == IF x = Absent THEN <<"N", "o", "n", "e">> ELSE x

\* s[a:b] for 0 <= a <= b
Slice(s, a, b) == SubSeq(s, a + 1, Min(b, Len(s)))
\* c.lower()
LowerChar(c) == IF c \in UpperLetters
                THEN LowerSeq[CHOOSE k \in 1..26 : UpperSeq[k] = c]
                ELSE c
\* s.lower()
Lower(s) == [k \in 1..Len(s) |-> LowerChar(s[k])]
\* s.isdigit()
IsDigitStr(s) == Len(s) > 0 /\ \A k \in 1..Len(s) : s[k] \in Digits \cup {SuperscriptTwo}
\* s.isalpha() and s.isupper(): every character is a letter, no cased character is lower
\* case and at least one is upper case
IsUpperAlpha(s) ==
    /\ Len(s) > 0
    /\ \A k \in 1..Len(s) : s[k] \in UpperLetters \cup LowerLetters \cup {UncasedLetter}
    /\ \A k \in 1..Len(s) : s[k] \notin LowerLetters
    /\ \E k \in 1..Len(s) : s[k] \in UpperLetters
\* s.find(sub) >= 0, sub in s
Contains(s, sub) == \E k \in 0..(Len(s) - Len(sub)) : Slice(s, k, k + Len(sub)) = sub
\* s.startswith(p)
StartsWith(s, p) == Len(s) >= Len(p) /\ SubSeq(s, 1, Len(p)) = p

DigitVal(c) == (CHOOSE k \in 1..10 : DigitSeq[k] = c) - 1
\* int(s) returns: s is a string of decimal digits (it raises ValueError otherwise)
CanInt(s) == Len(s) > 0 /\ \A k \in 1..Len(s) : s[k] \in Digits
\* int(s) for a string of decimal digits
RECURSIVE IntOf(_)
IntOf(s) == IF Len(s) = 0 THEN 0
            ELSE 10 * IntOf(SubSeq(s, 1, Len(s) - 1)) + DigitVal(s[Len(s)])
\* str(n) for an integer
RECURSIVE StrNat(_)
StrNat(n) == IF n < 10 THEN <<DigitSeq[n + 1]>>
             ELSE StrNat(n \div 10) \o <<DigitSeq[(n % 10) + 1]>>
StrInt(n) == IF n < 0 THEN <<"-">> \o StrNat(0 - n) ELSE StrNat(n)

\* lexicographic s < t, as Python compares strings of ASCII characters
CharRank(c) == IF c \in UpperLetters THEN CHOOSE k \in 1..26 : UpperSeq[k] = c ELSE 0
RECURSIVE StrLess(_, _)
StrLess(s, t) ==
    IF Len(t) = 0 THEN FALSE
    ELSE IF Len(s) = 0 THEN TRUE
    ELSE IF s[1] # t[1] THEN CharRank(s[1]) < CharRank(t[1])
    ELSE StrLess(Tail(s), Tail(t))

-----------------------------------------------------------------------------
(* Response parser *)

\* the label of a tuple: str(v.get("name") or v.get("concept") or "")
Label(v) == OrElse(v.name, v.concept)

\* a dict with no key is falsy (`if v`)
IsEmptyDict(v) == v.name = Absent /\ v.concept = Absent /\ v.id = Absent /\ v.value = Absent

\* the year one candidate token yields, "" when none (lines 81-89)
YearOfToken(token) ==
    IF Len(token) = 0 THEN <<>>
    ELSE IF StartsWith(Lower(token), <<"y", "r">>) /\ IsDigitStr(Slice(token, 2, 6))
         THEN Slice(token, 2, 6)
    ELSE IF Len(token) >= 4 /\ \E k \in 0..(Len(token) - 4) : IsDigitStr(Slice(token, k, k + 4))
         THEN LET k == CHOOSE k \in 0..(Len(token) - 4) :
                            /\ IsDigitStr(Slice(token, k, k + 4))
                            /\ \A m \in 0..(k - 1) : ~IsDigitStr(Slice(token, m, m + 4))
              IN Slice(token, k, k + 4)
    ELSE <<>>

\* the candidate tokens, in the order they are tried (lines 76-80)
YearTokens(vars_arr) ==
    LET timed == {k \in 1..Len(vars_arr) : Contains(Lower(StrOf(Label(vars_arr[k]))), <<"t", "i", "m", "e">>)}
        chosen == IF timed # {} THEN CHOOSE k \in timed : \A m \in timed : k <= m
                  ELSE IF Len(vars_arr) > 1 THEN 2
                  ELSE 0
        cand == IF chosen = 0 \/ IsEmptyDict(vars_arr[chosen]) THEN <<>>
                ELSE StrOf(vars_arr[chosen].id)
    IN <<cand>> \o [k \in 1..Len(vars_arr) |-> StrOf(vars_arr[k].value)]

FirstYear(tokens) ==
    LET hits == {k \in 1..Len(tokens) : YearOfToken(tokens[k]) # <<>>}
    IN IF hits = {} THEN <<>>
       ELSE YearOfToken(tokens[CHOOSE k \in hits : \A m \in hits : k <= m])

extract_year(vars_arr) == FirstYear(YearTokens(vars_arr))

\* the first run of 3 uppercase letters of a token, "" when none (lines 100-103)
Iso3OfToken(token) ==
    LET hits == {k \in 0..(Len(token) - 3) : IsUpperAlpha(Slice(token, k, k + 3))}
    IN IF hits = {} THEN <<>>
       ELSE LET k == CHOOSE k \in hits : \A m \in hits : k <= m
            IN Slice(token, k, k + 3)

FirstIso3(tokens) ==
    LET hits == {k \in 1..Len(tokens) : Iso3OfToken(tokens[k]) # <<>>}
    IN IF hits = {} THEN <<>>
       ELSE Iso3OfToken(tokens[CHOOSE k \in hits : \A m \in hits : k <= m])

\* is the tuple labelled as a country or an economy (lines 97-98)
IsCountryLabelled(v) ==
    LET name == Lower(StrOf(Label(v)))
    IN /\ Len(name) > 0
       /\ \/ Contains(name, <<"c", "o", "u", "n", "t", "r", "y">>)
          \/ Contains(name, <<"e", "c", "o", "n", "o", "m", "y">>)

extract_iso3(vars_arr) ==
    LET labelled == [k \in 1..Len(vars_arr) |->
                        IF IsCountryLabelled(vars_arr[k])
                        THEN StrOf(OrElse(vars_arr[k].id, vars_arr[k].value))
                        ELSE <<>>]
        first == FirstIso3(labelled)
        \* fallback scan: id then value of every tuple
        scan == [k \in 1..(2 * Len(vars_arr)) |->
                    IF k % 2 = 1 THEN StrOf(OrElse(vars_arr[(k + 1) \div 2].id, <<>>))
                    ELSE StrOf(OrElse(vars_arr[k \div 2].value, <<>>))]
    IN IF first # <<>> THEN first ELSE FirstIso3(scan)

-----------------------------------------------------------------------------
(* Program constants *)

max_attempts == 4
YEARS_TO_SHOW == 11
YearFloor == 2000
INDICATORS == <<"DT.DOD.DECT.CD", "DT.DOD.DLXF.CD", "DT.DOD.DPPG.CD", "DT.DOD.DPNG.CD",
                "DT.DOD.DIMF.CD", "DT.DOD.DSTC.CD", "DT.TDS.DECT.CD", "DT.AMT.DECT.CD",
                "DT.INT.DECT.CD", "DT.DIS.DLXF.CD", "DT.DOD.DECT.GN.ZS", "DT.TDS.DECT.EX.ZS",
                "DT.INT.DECT.EX.ZS">>

-----------------------------------------------------------------------------
(* URLs, responses and errors *)

Url(ep, iso3, code, y_start, y_end) ==
    [ep |-> ep, iso3 |-> iso3, code |-> code, y_start |-> y_start, y_end |-> y_end]
NoUrl == Url("", <<>>, "", <<>>, <<>>)
\* {WB}/sources/6/country?format=json&per_page=500
CountryListUrl == Url("sources/6/country", <<>>, "", <<>>, <<>>)
\* {WB}/sources/6/country/all/series/DT.DOD.DECT.CD/counterpart-area/WLD/time/all
ProbeUrl == Url("series/time/all", <<"a", "l", "l">>, "DT.DOD.DECT.CD", <<>>, <<>>)
\* {WB}/country?format=json&per_page=1200
NamesUrl == Url("country", <<>>, "", <<>>, <<>>)
\* {WB}/sources/6/country/{iso3}/series/DT.DOD.DECT.CD/counterpart-area/WLD/time/all
LatestUrl(iso3) == Url("series/time/all", iso3, "DT.DOD.DECT.CD", <<>>, <<>>)
\* {WB}/sources/6/country/{iso3}/series/{code}/counterpart-area/WLD/time/yr{y_start}:yr{y_end}
RangeUrl(iso3, code, y_start, y_end) == Url("series/time/range", iso3, code, y_start, y_end)

\* `last`: None, f"HTTP {r.status_code}" or str(e)
None == [kind |-> "None", status_code |-> 0, msg |-> ""]
HttpReason(s) == [kind |-> "HTTP", status_code |-> s, msg |-> ""]
ExcReason(m) == [kind |-> "exception", status_code |-> 0, msg |-> m]

\* a parsed JSON body: a list of n elements whose element 1 holds `entries`, or an
\* object with a "countries" array and a source.data array
ListBody(n, entries) == [kind |-> "list", n |-> n, entries |-> entries, rows |-> <<>>]
ObjBody(entries, rows) == [kind |-> "object", n |-> 0, entries |-> entries, rows |-> rows]
NoBody == [kind |-> "none", n |-> 0, entries |-> <<>>, rows |-> <<>>]
\* a body that is not JSON
Malformed == [kind |-> "malformed", n |-> 0, entries |-> <<>>, rows |-> <<>>]

\* the outcome of SESSION.get: a response r, or a requests.RequestException
NoResponse == [got |-> "none", status_code |-> 0, body |-> NoBody, exc |-> ""]
Response(s, b) == [got |-> "response", status_code |-> s, body |-> b, exc |-> ""]
TransportFailure(e) == [got |-> "exception", status_code |-> 0, body |-> NoBody, exc |-> e]

NoError == [type |-> "none", url |-> NoUrl, last |-> None]
\* RuntimeError(f"GET failed: {url} :: {last}")
RuntimeError(url, last) == [type |-> "RuntimeError", url |-> url, last |-> last]
\* an exception that is raised by the parsing code and carries neither
OtherError(type) == [type |-> type, url |-> NoUrl, last |-> None]

HttpStatuses == {200, 400}
TransportErrors == {"ConnectTimeout"}

-----------------------------------------------------------------------------
(* HTTP access layer: get_json *)

NewCall(url) ==
    [url |-> url, attempt |-> 0, last |-> None, status |-> "running", resp |-> NoResponse,
     result |-> NoBody, error |-> NoError, delays |-> <<>>]

\* variant: the comparison is strict
IsErrorStatusAbove(s) == s > 400
\* r.status_code >= 400
IsErrorStatus(s) == s >= 400

\* no get_json call is in progress
IdleCall == [NewCall(NoUrl) EXCEPT !.status = "idle"]

\* variant: `last` keeps the reason of the first failure
FailedAttemptKeepsFirst(c, resp, reason) ==
    LET d == [c EXCEPT !.attempt = c.attempt + 1,
                       !.resp = resp,
                       !.last = IF c.last = None THEN reason ELSE c.last,
                       !.delays = Append(c.delays, c.attempt)]
    IN IF d.attempt < max_attempts
       THEN d
       ELSE [d EXCEPT !.status = "raised", !.error = RuntimeError(c.url, d.last)]

\* one iteration that ends in `last = ...; _sleep_backoff(attempt)`, and the raise
\* that follows the last iteration
FailedAttempt(c, resp, reason) ==
    LET d == [c EXCEPT !.attempt = c.attempt + 1,
                       !.resp = resp,
                       !.last = reason,
                       !.delays = Append(c.delays, c.attempt)]
    IN IF d.attempt < max_attempts
       THEN d
       ELSE [d EXCEPT !.status = "raised", !.error = RuntimeError(c.url, d.last)]

\* return r.json()
ReturnedAttempt(c, resp) ==
    [c EXCEPT !.attempt = c.attempt + 1, !.resp = resp, !.status = "returned",
              !.result = resp.body]

\* r.json() raises: a RequestException (caught, line 67) or a plain ValueError
BadJsonAttempt(c, resp, isRequestException) ==
    IF isRequestException
    THEN FailedAttempt(c, resp, ExcReason("JSONDecodeError"))
    ELSE [c EXCEPT !.attempt = c.attempt + 1, !.resp = resp, !.status = "raised",
                   !.error = OtherError("JSONDecodeError")]

Running == pc \notin {"done", "parse", "parsed"} /\ call.status = "running"

UnchangedMain == UNCHANGED <<pc, jsonErrIsRequestException, seen, countries, countriesFile, i,
                             found, end, years, series_map, files, opened, stdout, stderr, exitCode, pacing, xin, xout>>

GetHttpError ==
    /\ Running
    /\ \E s \in HttpStatuses :
          /\ IsErrorStatus(s)
          /\ call' = FailedAttempt(call, Response(s, NoBody), HttpReason(s))
    /\ UnchangedMain

GetTransportError ==
    /\ Running
    /\ \E e \in TransportErrors : call' = FailedAttempt(call, TransportFailure(e), ExcReason(e))
    /\ UnchangedMain

GetBadJson ==
    /\ Running
    /\ \E s \in HttpStatuses :
          /\ ~IsErrorStatus(s)
          /\ call' = BadJsonAttempt(call, Response(s, Malformed), jsonErrIsRequestException)
    /\ UnchangedMain

-----------------------------------------------------------------------------
(* Responses the modelled API serves *)

AFG == <<"A", "F", "G">>
BRA == <<"B", "R", "A">>
NameAFG == <<"A", "f">>
NameBRA == <<"B", "r">>
NameAlt == <<"A", "x">>

\* an element of a country array: an object with id and name, or something else
Entry(id, name) == [isdict |-> TRUE, id |-> id, name |-> name]
NotAnObject == [isdict |-> FALSE, id |-> Absent, name |-> Absent]
Country(id, name) == [id |-> id, name |-> name]

\* one tuple of a record's "variable" list
Tup(name, concept, id, value) == [name |-> name, concept |-> concept, id |-> id, value |-> value]
\* a record's "value"
NullValue == [kind |-> "null", n |-> 0, s |-> <<>>]
Num(n) == [kind |-> "number", n |-> n, s |-> <<>>]
Str(s) == [kind |-> "string", n |-> 0, s |-> s]
Rec(variable, value) == [variable |-> variable, value |-> value]

CountryTup(code) == Tup(Absent, <<"C", "o", "u", "n", "t", "r", "y">>, code, Absent)
SeriesTup == Tup(Absent, <<"S", "e", "r", "i", "e", "s">>, <<"D", "T", ".", "D", "O", "D">>, Absent)
AreaTup == Tup(Absent, <<"C", "o", "u", "n", "t", "e", "r", "p", "a", "r", "t">>, <<"W", "L", "D">>, Absent)
TimeTup(tok) == Tup(Absent, <<"T", "i", "m", "e">>, tok, Absent)

YR(digits) == <<"Y", "R">> \o digits
Y2020 == <<"2", "0", "2", "0">>
Y1995 == <<"1", "9", "9", "5">>
Y2005 == <<"2", "0", "0", "5">>

\* country arrays of the rich catalogue
CountryEntries == {Entry(AFG, NameAFG), Entry(BRA, NameBRA), Entry(AFG, NameAlt),
                   Entry(BRA, Absent), NotAnObject}
\* the country array of the plain catalogue, in an order that is not sorted by id
PlainEntries == <<Entry(BRA, NameBRA), Entry(AFG, NameAFG)>>

\* records of the all-countries probe
ProbeRecords ==
    {Rec(<<CountryTup(AFG), SeriesTup, AreaTup, TimeTup(YR(Y2020))>>, Num(1)),
     Rec(<<Tup(<<"e", "c", "o", "n", "o", "m", "y">>, Absent, Absent, BRA)>>, Num(1)),
     Rec(<<AreaTup, Tup(<<"C", "O", "U", "N", "T", "R", "Y">>, Absent, <<"A", "F", "G", "x">>, Absent)>>, NullValue),
     Rec(<<TimeTup(YR(Y2020))>>, Num(1))}

\* records of a country's full-history probe: a recent year, a record without a year,
\* a year before 2000, a year written with a superscript digit, and a time id with two
\* digits only
DiscoveryRecords(url) ==
    {Rec(<<CountryTup(url.iso3), SeriesTup, AreaTup, TimeTup(YR(Y2020))>>, Num(1)),
     Rec(<<CountryTup(url.iso3)>>, Num(1)),
     Rec(<<CountryTup(url.iso3), SeriesTup, AreaTup, TimeTup(YR(Y1995))>>, Num(1)),
     Rec(<<TimeTup(YR(<<"2", "0", SuperscriptTwo, "1">>))>>, Num(1)),
     Rec(<<TimeTup(<<"y", "r", "1", "2">>)>>, Num(1))}

\* records answering a ranged fetch: the last year asked for, with a number, with a
\* numeric string and with a value that is no number, and a year that was not asked for
RangeRecords(url) ==
    {Rec(<<CountryTup(url.iso3), SeriesTup, AreaTup, TimeTup(YR(url.y_end))>>, Num(10)),
     Rec(<<CountryTup(url.iso3), SeriesTup, AreaTup, TimeTup(YR(url.y_end))>>, Str(<<"7">>)),
     Rec(<<CountryTup(url.iso3), SeriesTup, AreaTup, TimeTup(YR(Y2005))>>, Num(20)),
     Rec(<<CountryTup(url.iso3), SeriesTup, AreaTup, TimeTup(YR(url.y_end))>>, Str(<<"n", "/", "a">>))}

\* the series and the country the modelled API holds observations for
DataIndicators == {"DT.INT.DECT.EX.ZS"}
DataCountries == {BRA}

\* [{"message": [...]}]: the API's error document, served with status 200
ErrorDocument == ListBody(1, <<>>)

\* What a request to url can be answered with: one of Documents, or an array of at
\* most ArrayBound elements of Elements, wrapped as that endpoint wraps it.
\* world "catalog": every shape of country list, no observations;
\* world "data": one country list, every shape of observations;
\* world "budget": the country list of "data", no observations
IsCountryEndpoint(url) == url = CountryListUrl \/ url = NamesUrl

Documents(world, url) ==
    IF url = CountryListUrl THEN
        IF world = "catalog"
        THEN {ErrorDocument, ObjBody(<<Entry(AFG, NameAFG)>>, <<>>), ObjBody(<<>>, <<>>)}
        ELSE {ListBody(2, PlainEntries), ErrorDocument}
    ELSE IF url = ProbeUrl THEN
        IF world = "catalog"
        THEN {ErrorDocument}
        ELSE {ObjBody(<<>>, <<Rec(<<CountryTup(AFG)>>, Num(1)), Rec(<<CountryTup(AFG)>>, Num(1))>>),
              ErrorDocument}
    ELSE IF url = NamesUrl THEN
        IF world = "catalog"
        THEN {ErrorDocument, ObjBody(<<Entry(AFG, NameAFG)>>, <<>>)}
        ELSE {ListBody(2, <<Entry(AFG, NameAFG)>>)}
    ELSE {ErrorDocument}

Elements(world, url) ==
    IF IsCountryEndpoint(url) THEN (IF world = "catalog" THEN CountryEntries ELSE {})
    ELSE IF url = ProbeUrl THEN (IF world = "catalog" THEN ProbeRecords ELSE {})
    ELSE IF world # "data" \/ url.iso3 \notin DataCountries THEN {}
    ELSE IF url.ep = "series/time/all" THEN DiscoveryRecords(url)
    ELSE IF url.code \in DataIndicators THEN RangeRecords(url)
    ELSE {}

\* the longest array served; below 0 when the endpoint serves Documents only
ArrayBound(world, url) ==
    IF IsCountryEndpoint(url) THEN (IF world = "catalog" THEN MaxEntries ELSE 0 - 1)
    ELSE IF url = ProbeUrl THEN (IF world = "catalog" THEN MaxRows ELSE 0 - 1)
    ELSE IF Elements(world, url) = {} THEN 0
    ELSE MaxRows

Wrap(url, xs) == IF IsCountryEndpoint(url) THEN ListBody(2, xs) ELSE ObjBody(<<>>, xs)

\* time.gmtime().tm_year
ClockYears(world) == IF world = "data" THEN {2001, 2026} ELSE {2026}

GetOk(world) ==
    /\ Running
    /\ \E s \in HttpStatuses :
          /\ ~IsErrorStatus(s)
          /\ \/ \E b \in Documents(world, call.url) :
                   call' = ReturnedAttempt(call, Response(s, b))
             \/ \E k \in 0..ArrayBound(world, call.url) :
                   \E xs \in [1..k -> Elements(world, call.url)] :
                      call' = ReturnedAttempt(call, Response(s, Wrap(call.url, xs)))
    /\ UnchangedMain

-----------------------------------------------------------------------------
(* Dicts *)

EmptyMap == [x \in {} |-> 0]
\* d[k] = v
Put(d, k, v) == [x \in (DOMAIN d) \cup {k} |-> IF x = k THEN v ELSE d[x]]

-----------------------------------------------------------------------------
(* Year discovery and series fetcher: what they compute from the rows *)

\* the outcome of a computation that int() ended with a ValueError
ValueErrorRaised == <<"ValueError">>

\* the loop of lines 151-155: `not best` is tested first, then int(y) > int(best)
RECURSIVE BestYear(_, _)
BestYear(rows, best) ==
    IF rows = <<>> THEN best
    ELSE LET y == extract_year(Head(rows).variable)
         IN IF y = <<>> THEN BestYear(Tail(rows), best)
            ELSE IF best = <<>> THEN BestYear(Tail(rows), y)
            ELSE IF ~CanInt(y) \/ ~CanInt(best) THEN ValueErrorRaised
            ELSE BestYear(Tail(rows), IF IntOf(y) > IntOf(best) THEN y ELSE best)

\* variant: the fallback year has no floor
find_latest_year_no_floor(rows, now) ==
    LET best == BestYear(rows, <<>>)
    IN IF best = <<>> THEN StrInt(now - 2) ELSE best

\* lines 150-159 with the rows of the probe: the year string returned, or ValueErrorRaised
find_latest_year(rows, now) ==
    LET best == BestYear(rows, <<>>)
    IN IF best = <<>> THEN StrInt(Max(YearFloor, now - 2)) ELSE best

\* float(v) succeeds
CanFloat(v) == v.kind = "number" \/ (v.kind = "string" /\ CanInt(v.s))
FloatOf(v) == IF v.kind = "number" THEN v.n ELSE IntOf(v.s)

\* the loop of lines 167-174
RECURSIVE SeriesOf(_, _)
SeriesOf(rows, out) ==
    IF rows = <<>> THEN out
    ELSE LET y == extract_year(Head(rows).variable)
             v == Head(rows).value
         IN SeriesOf(Tail(rows),
                     IF y # <<>> /\ v.kind # "null" /\ CanFloat(v) THEN Put(out, y, FloatOf(v)) ELSE out)

\* variant: out.setdefault(str(y), float(v)), the first value of a year is kept
RECURSIVE SeriesOfFirst(_, _)
SeriesOfFirst(rows, out) ==
    IF rows = <<>> THEN out
    ELSE LET y == extract_year(Head(rows).variable)
             v == Head(rows).value
         IN SeriesOfFirst(Tail(rows),
                          IF y # <<>> /\ v.kind # "null" /\ CanFloat(v) /\ y \notin DOMAIN out
                          THEN Put(out, y, FloatOf(v)) ELSE out)
fetch_series_range_first_wins(rows) == SeriesOfFirst(rows, EmptyMap)

fetch_series_range(rows) == SeriesOf(rows, EmptyMap)

\* variant: range(end - YEARS_TO_SHOW, end)
WindowEndsEarly(e) == [k \in 1..YEARS_TO_SHOW |-> StrInt(e - YEARS_TO_SHOW + k - 1)]
\* [str(y) for y in range(end - YEARS_TO_SHOW + 1, end + 1)]
Window(e) == [k \in 1..YEARS_TO_SHOW |-> StrInt(e - YEARS_TO_SHOW + k)]

-----------------------------------------------------------------------------
(* Country resolver: what it computes from the bodies *)

\* c.get(...) on an element that is no object raises AttributeError
HasNonObject(arr) == \E k \in 1..Len(arr) : ~arr[k].isdict
Accepted(c) == Truthy(c.id) /\ Truthy(c.name)

\* variant: the filter tests the id only
RECURSIVE AcceptedEntriesById(_)
AcceptedEntriesById(arr) ==
    IF arr = <<>> THEN <<>>
    ELSE (IF Truthy(Head(arr).id) THEN <<Country(Head(arr).id, Head(arr).name)>> ELSE <<>>)
         \o AcceptedEntriesById(Tail(arr))

\* [{"id": c["id"], "name": c["name"]} for c in arr if c.get("id") and c.get("name")]
RECURSIVE AcceptedEntries(_)
AcceptedEntries(arr) ==
    IF arr = <<>> THEN <<>>
    ELSE (IF Accepted(Head(arr)) THEN <<Country(Head(arr).id, Head(arr).name)>> ELSE <<>>)
         \o AcceptedEntries(Tail(arr))

\* the array the primary path reads: j[1], or j.get("countries", [])
PrimaryRaises(j) == (j.kind = "list" /\ j.n <= 1) \/ HasNonObject(j.entries)
PrimaryOut(j) == AcceptedEntries(j.entries)

\* the loop of lines 130-133: seen.setdefault(iso, {"id": iso, "name": iso})
RECURSIVE SeenOf(_, _)
SeenOf(rows, acc) ==
    IF rows = <<>> THEN acc
    ELSE LET iso == extract_iso3(Head(rows).variable)
         IN SeenOf(Tail(rows),
                   IF iso # <<>> /\ \A k \in 1..Len(acc) : acc[k].id # iso
                   THEN Append(acc, Country(iso, iso))
                   ELSE acc)

\* lines 137-140: names = {...}; v["name"] = names[k]
NamesArray(cj) == IF cj.kind = "list" /\ cj.n > 1 THEN cj.entries ELSE <<>>
Upgraded(dict, carr) ==
    [k \in 1..Len(dict) |->
        LET hits == {m \in 1..Len(carr) : Accepted(carr[m]) /\ carr[m].id = dict[k].id}
        IN IF hits = {} THEN dict[k]
           ELSE Country(dict[k].id, carr[CHOOSE m \in hits : \A n \in hits : n <= m].name)]
UpgradeNames(dict, cj) ==
    IF HasNonObject(NamesArray(cj)) THEN dict ELSE Upgraded(dict, NamesArray(cj))

\* sorted(seen.values(), key=lambda x: x["id"])
InsertById(s, e) ==
    LET k == Cardinality({m \in 1..Len(s) : ~StrLess(e.id, s[m].id)})
    IN SubSeq(s, 1, k) \o <<e>> \o SubSeq(s, k + 1, Len(s))
\* variant: the dict's values are returned in insertion order
SortedByIdUnsorted(s) == s
RECURSIVE SortedById(_)
SortedById(s) ==
    IF s = <<>> THEN <<>>
    ELSE InsertById(SortedById(SubSeq(s, 1, Len(s) - 1)), s[Len(s)])

-----------------------------------------------------------------------------
(* main *)

StdErrLine(k, iso3, error) == [i |-> k, iso3 |-> iso3, error |-> error]
StdOutLine(k, iso3, latest) == [i |-> k, iso3 |-> iso3, latest |-> latest]

Returned(site) == pc = site /\ call.status = "returned"
Raised(site) == pc = site /\ call.status = "raised"

\* the locals of one loop iteration, before the iteration has set them
ClearLocals == found' = <<>> /\ end' = 0 /\ years' = <<>> /\ series_map' = EmptyMap /\ pacing' = 0

\* the loop of line 190 takes country k
StartCountry(list, k) ==
    /\ pc' = "latest"
    /\ i' = k
    /\ call' = NewCall(LatestUrl(list[k].id))
    /\ ClearLocals
    /\ sent' = 0
    /\ UNCHANGED exitCode

\* the process ends
Exit(code) ==
    /\ pc' = "done"
    /\ exitCode' = <<code>>
    /\ call' = IdleCall
    /\ UNCHANGED <<i, sent>>
    /\ ClearLocals

\* variant: countries.json is written before the list is tested
ResolvedWritesFirst(list) ==
    /\ countries' = list
    /\ countriesFile' = [written |-> TRUE, content |-> list]
    /\ IF list = <<>>
       THEN /\ stderr' = Append(stderr, StdErrLine(0, <<>>, "Could not derive country list"))
            /\ Exit(2)
       ELSE /\ StartCountry(list, 1)
            /\ UNCHANGED stderr
    /\ UNCHANGED <<files, opened, stdout>>

\* lines 181-190, with the list fetch_source6_countries returned
Resolved(list) ==
    /\ countries' = list
    /\ IF list = <<>>
       THEN /\ stderr' = Append(stderr, StdErrLine(0, <<>>, "Could not derive country list"))
            /\ Exit(2)
            /\ UNCHANGED countriesFile
       ELSE /\ countriesFile' = [written |-> TRUE, content |-> list]
            /\ StartCountry(list, 1)
            /\ UNCHANGED stderr
    /\ UNCHANGED <<files, opened, stdout>>

\* an exception leaves fetch_source6_countries and main: Python prints the
\* traceback and exits with status 1
Uncaught(type) ==
    /\ stderr' = Append(stderr, StdErrLine(0, <<>>, type))
    /\ Exit(1)
    /\ UNCHANGED <<countries, countriesFile, files, opened, stdout>>

\* the loop of line 190 moves on: the next country, or return 0
NextCountry ==
    IF i < Len(countries) THEN StartCountry(countries, i + 1) ELSE Exit(0)

\* variant: the country's exception ends the run
CountryFailedAborts(type) ==
    /\ stderr' = Append(stderr, StdErrLine(i, countries[i].id, type))
    /\ Exit(1)
    /\ UNCHANGED <<files, opened, stdout>>

\* variant: a country that failed is tried again
CountryFailedRetries(type) ==
    /\ StartCountry(countries, i)
    /\ UNCHANGED <<files, opened, stdout, stderr>>

\* lines 219-221: the country's exception is caught and reported
CountryFailed(type) ==
    /\ stderr' = Append(stderr, StdErrLine(i, countries[i].id, type))
    /\ NextCountry
    /\ UNCHANGED <<files, opened, stdout>>

UnchangedResolver == UNCHANGED <<jsonErrIsRequestException, seen, countries, countriesFile, xin, xout>>
UnchangedHarness == UNCHANGED <<jsonErrIsRequestException, xin, xout>>

\* lines 117-123 after get_json returned
PrimaryReturn ==
    /\ Returned("primary")
    /\ IF ~PrimaryRaises(call.result) /\ PrimaryOut(call.result) # <<>>
       THEN Resolved(PrimaryOut(call.result)) /\ UNCHANGED seen
       ELSE /\ pc' = "probe"
            /\ call' = NewCall(ProbeUrl)
            /\ UNCHANGED <<seen, countries, countriesFile, i, found, end, years, series_map, files, opened,
                           stdout, stderr, exitCode, pacing, sent>>
    /\ UnchangedHarness

\* lines 122-127 after get_json raised
PrimaryRaise ==
    /\ Raised("primary")
    /\ pc' = "probe"
    /\ call' = NewCall(ProbeUrl)
    /\ UNCHANGED <<seen, countries, countriesFile, i, found, end, years, series_map, files, opened,
                   stdout, stderr, exitCode, pacing, sent>>
    /\ UnchangedHarness

\* lines 128-136 after get_json returned
ProbeReturn ==
    /\ Returned("probe")
    /\ IF call.result.kind # "object"
       THEN Uncaught("AttributeError") /\ UNCHANGED seen
       ELSE /\ seen' = SeenOf(call.result.rows, <<>>)
            /\ pc' = "names"
            /\ call' = NewCall(NamesUrl)
            /\ UNCHANGED <<countries, countriesFile, i, found, end, years, series_map, files, opened,
                           stdout, stderr, exitCode, pacing, sent>>
    /\ UnchangedHarness

\* line 127 raised: nothing catches it
ProbeRaise ==
    /\ Raised("probe")
    /\ Uncaught(call.error.type)
    /\ UNCHANGED seen
    /\ UnchangedHarness

\* lines 137-143 after get_json returned
NamesReturn ==
    /\ Returned("names")
    /\ seen' = UpgradeNames(seen, call.result)
    /\ Resolved(SortedById(seen'))
    /\ UnchangedHarness

\* lines 141-143 after get_json raised
NamesRaise ==
    /\ Raised("names")
    /\ Resolved(SortedById(seen))
    /\ UNCHANGED seen
    /\ UnchangedHarness

\* lines 150-201 after get_json returned: find_latest_year, the window, the first fetch
LatestReturn(world) ==
    /\ Returned("latest")
    /\ IF call.result.kind # "object"
       THEN CountryFailed("AttributeError")
       ELSE \E now \in ClockYears(world) :
            \E latest \in {find_latest_year(call.result.rows, now)} :
               IF latest = ValueErrorRaised \/ ~CanInt(latest)
               THEN CountryFailed("ValueError")
               ELSE /\ found' = BestYear(call.result.rows, <<>>)
                    /\ end' = IntOf(latest)
                    /\ years' = Window(end')
                    /\ series_map' = EmptyMap
                    /\ pacing' = 0
                    /\ pc' = "range"
                    /\ call' = NewCall(RangeUrl(countries[i].id, INDICATORS[1], years'[1], years'[Len(years')]))
                    /\ UNCHANGED <<i, files, opened, stdout, stderr, exitCode, sent>>
    /\ UnchangedResolver

LatestRaise ==
    /\ Raised("latest")
    /\ CountryFailed(call.error.type)
    /\ UnchangedResolver

CodeIndex(code) == CHOOSE k \in 1..Len(INDICATORS) : INDICATORS[k] = code

Dataset(iso3, name, e, ys, sm) ==
    [country |-> iso3, name |-> name, latest_year |-> e, years |-> ys, series |-> sm,
     source |-> [api |-> "https://api.worldbank.org/v2/sources/6", counterpart_area |-> "WLD"]]

\* lines 165-216 after get_json returned: the series, the pacing delay, then the
\* next fetch, or open(p, "w"), which creates or truncates the country's file
RangeReturn ==
    /\ Returned("range")
    /\ IF call.result.kind # "object"
       THEN CountryFailed("AttributeError")
       ELSE \E sm \in {Put(series_map, call.url.code, fetch_series_range(call.result.rows))} :
            LET k == CodeIndex(call.url.code)
                c == countries[i]
            IN IF k < Len(INDICATORS)
               THEN /\ series_map' = sm
                    /\ pacing' = pacing + 1
                    /\ call' = NewCall(RangeUrl(c.id, INDICATORS[k + 1], years[1], years[Len(years)]))
                    /\ UNCHANGED <<pc, i, found, end, years, files, opened, stdout, stderr, exitCode, sent>>
               ELSE /\ series_map' = sm
                    /\ pacing' = pacing + 1
                    /\ pc' = "dump"
                    /\ opened' = <<c.id>>
                    /\ UNCHANGED <<call, i, found, end, years, files, stdout, stderr, exitCode, sent>>
    /\ UnchangedResolver

\* lines 217-218: json.dump writes the dataset into the open file, the file is
\* closed, the progress line is printed and the loop moves on
WriteDataset ==
    /\ pc = "dump"
    /\ LET c == countries[i]
       IN /\ files' = Put(files, c.id, Dataset(c.id, c.name, end, years, series_map))
          /\ opened' = <<>>
          /\ stdout' = Append(stdout, StdOutLine(i, c.id, end))
    /\ NextCountry
    /\ UNCHANGED stderr
    /\ UnchangedResolver

\* variant: each indicator has its own try/except, a failed fetch skips that indicator
RangeRaiseSkipsIndicator ==
    /\ Raised("range")
    /\ LET k == CodeIndex(call.url.code)
           c == countries[i]
       IN IF k < Len(INDICATORS)
          THEN /\ call' = NewCall(RangeUrl(c.id, INDICATORS[k + 1], years[1], years[Len(years)]))
               /\ UNCHANGED <<pc, i, found, end, years, series_map, pacing, files, opened, stdout,
                              stderr, exitCode, sent>>
          ELSE /\ pc' = "dump"
               /\ opened' = <<c.id>>
               /\ UNCHANGED <<call, i, found, end, years, series_map, pacing, files, stdout,
                              stderr, exitCode, sent>>
    /\ UnchangedResolver

\* lines 201-221 after get_json raised: the exception leaves the loop of line 200
RangeRaise ==
    /\ Raised("range")
    /\ CountryFailed(call.error.type)
    /\ UnchangedResolver

-----------------------------------------------------------------------------
(* Specifications *)

NoResult == [year |-> <<>>, iso3 |-> <<>>]

Init ==
    /\ pc = "primary"
    /\ call = NewCall(CountryListUrl)
    /\ jsonErrIsRequestException \in BOOLEAN
    /\ seen = <<>>
    /\ countries = <<>>
    /\ countriesFile = [written |-> FALSE, content |-> <<>>]
    /\ i = 0
    /\ found = <<>>
    /\ end = 0
    /\ years = <<>>
    /\ series_map = EmptyMap
    /\ files = EmptyMap
    /\ opened = <<>>
    /\ stdout = <<>>
    /\ stderr = <<>>
    /\ exitCode = <<>>
    /\ pacing = 0
    /\ sent = 0
    /\ xin = <<>>
    /\ xout = NoResult

\* line 61: one more request has been sent
Tally(world) == sent' = IF world = "budget" THEN sent + 1 ELSE sent

Pipeline(world) ==
    \/ GetHttpError /\ Tally(world)
    \/ GetTransportError /\ Tally(world)
    \/ GetBadJson /\ Tally(world)
    \/ GetOk(world) /\ Tally(world)
    \/ PrimaryReturn
    \/ PrimaryRaise
    \/ ProbeReturn
    \/ ProbeRaise
    \/ NamesReturn
    \/ NamesRaise
    \/ LatestReturn(world)
    \/ LatestRaise
    \/ RangeReturn
    \/ RangeRaise
    \/ WriteDataset

\* the run against an API that serves every shape of country list
Next == Pipeline("catalog")
Spec == Init /\ [][Next]_vars

\* the run against an API that serves every shape of observations
NextData == Pipeline("data")
SpecData == Init /\ [][NextData]_vars

\* the run with its requests counted
NextBudget == Pipeline("budget")
SpecBudget == Init /\ [][NextBudget]_vars

-----------------------------------------------------------------------------
(* Parser harness: the extraction functions applied to generated tuple lists *)

DigitRun(n) == SubSeq(<<"2", "0", "1", "9", "5", "1">>, 1, n)

\* id tokens: a run of 0..MaxDigits digits, bare or after "yR" or after a letter
HarnessYearIds ==
    {Absent} \cup {prefix \o DigitRun(n) : prefix \in {<<>>, <<"y", "R">>, <<"x">>}, n \in 0..MaxDigits}

HarnessTuples ==
    {Tup(name, Absent, id, Absent) : name \in {Absent, <<"T", "i", "m", "e">>}, id \in HarnessYearIds}
    \cup {Tup(Absent, <<"t", "I", "M", "E">>, <<"Y", "r", "2", "0", "0", "5">>, Absent),
          Tup(Absent, Absent, Absent, Y1995),
          Tup(Absent, Absent, Absent, <<"y", "r", "7">>),
          CountryTup(<<"A", "F", "G", "x">>),
          CountryTup(<<"A", UncasedLetter, "B">>),
          TimeTup(YR(<<"2", "0", SuperscriptTwo, "1">>)),
          AreaTup,
          Tup(Absent, Absent, Absent, <<"x", "B", "R", "A">>)}

InitParser ==
    /\ pc = "parse"
    /\ \E k \in 0..MaxTuples : xin \in [1..k -> HarnessTuples]
    /\ xout = NoResult
    /\ call = IdleCall
    /\ jsonErrIsRequestException = TRUE
    /\ seen = <<>>
    /\ countries = <<>>
    /\ countriesFile = [written |-> FALSE, content |-> <<>>]
    /\ i = 0
    /\ found = <<>>
    /\ end = 0
    /\ years = <<>>
    /\ series_map = EmptyMap
    /\ files = EmptyMap
    /\ opened = <<>>
    /\ stdout = <<>>
    /\ stderr = <<>>
    /\ exitCode = <<>>
    /\ pacing = 0
    /\ sent = 0

Parse ==
    /\ pc = "parse"
    /\ pc' = "parsed"
    /\ xout' = [year |-> extract_year(xin), iso3 |-> extract_iso3(xin)]
    /\ UNCHANGED <<call, jsonErrIsRequestException, seen, countries, countriesFile, i, found, end,
                   years, series_map, files, opened, stdout, stderr, exitCode, pacing, sent, xin>>

SpecParser == InitParser /\ [][Parse]_vars

-----------------------------------------------------------------------------
(* Properties *)

\* the country indices main has reported as failed, and as completed
FailedIdx == {stderr[k].i : k \in 1..Len(stderr)} \ {0}
CompletedIdx == {stdout[k].i : k \in 1..Len(stdout)}
\* the country indices whose loop iteration has ended
Processed == IF pc = "done" THEN 1..Len(countries) ELSE 1..(i - 1)

Ids(list) == {list[k].id : k \in 1..Len(list)}
NoDuplicateIds(list) ==
    \A k, m \in 1..Len(list) : k # m => list[k].id # list[m].id

\* C1: with a non-empty country list, every country whose iteration has ended is either
\* reported as failed or completed, never both; the files written in the run are
\* exactly those of the completed countries; main goes through the whole list and
\* returns 0, whichever countries failed.
C1_FailureIsolation ==
    countries # <<>> =>
        /\ FailedIdx \cup CompletedIdx = Processed
        /\ FailedIdx \cap CompletedIdx = {}
        /\ DOMAIN files = {countries[k].id : k \in CompletedIdx}
        /\ pc = "done" => exitCode = <<0>>

\* C1 witness: the run has ended with exit code 0, the first of two countries failed
\* and the second was completed after it.
C1_Witness ==
    /\ pc = "done"
    /\ exitCode = <<0>>
    /\ Len(countries) = 2
    /\ FailedIdx = {1}
    /\ CompletedIdx = {2}
    /\ DOMAIN files = {countries[2].id}

\* the latest attempt ended in a transport-level failure or a response with status >= 400
FailedByTransportOrStatus(resp) ==
    \/ resp.got = "exception"
    \/ resp.got = "response" /\ resp.status_code >= 400
\* the latest attempt got a response with status < 400 whose body is no JSON
MalformedOk(resp) ==
    resp.got = "response" /\ resp.status_code < 400 /\ resp.body = Malformed

\* C2 as stated: a get_json call issues at most 4 requests, goes on to another request
\* only after a transport-level failure or a status >= 400, and returns the parsed
\* body of the first response with status < 400.
C2_Original ==
    /\ call.attempt <= 4
    /\ (call.status = "running" /\ call.attempt >= 1) => FailedByTransportOrStatus(call.resp)
    /\ (call.resp.got = "response" /\ call.resp.status_code < 400 /\ call.resp.body # Malformed)
          => (call.status = "returned" /\ call.result = call.resp.body)
    /\ call.status = "returned"
          => /\ call.resp.got = "response"
             /\ call.resp.status_code < 400
             /\ call.resp.body # Malformed
             /\ call.result = call.resp.body

\* C2 amended: a get_json call issues at most 4 requests; it goes on to another request
\* only after a transport-level failure, a status >= 400, or a response with status
\* < 400 whose body is no JSON and whose decoding error is a RequestException; it
\* returns the parsed body of the first response with status < 400 whose body parses,
\* and it returns nothing else.
C2_Amended ==
    /\ call.attempt <= 4
    /\ (call.status = "running" /\ call.attempt >= 1)
          => \/ FailedByTransportOrStatus(call.resp)
             \/ MalformedOk(call.resp) /\ jsonErrIsRequestException
    /\ (call.resp.got = "response" /\ call.resp.status_code < 400 /\ call.resp.body # Malformed)
          => (call.status = "returned" /\ call.result = call.resp.body)
    /\ call.status = "returned"
          => /\ call.resp.got = "response"
             /\ call.resp.status_code < 400
             /\ call.resp.body # Malformed
             /\ call.result = call.resp.body

\* C2 witness: a call returned the body of its third response, after two failed attempts.
C2_Witness ==
    /\ call.status = "returned"
    /\ call.attempt = 3
    /\ call.last # None
    /\ call.result = call.resp.body

\* the reason the failure of the latest attempt is reported with
ReasonOf(resp) ==
    IF resp.got = "exception" THEN ExcReason(resp.exc)
    ELSE IF resp.status_code >= 400 THEN HttpReason(resp.status_code)
    ELSE ExcReason("JSONDecodeError")

\* C3: when the fourth attempt of a call has failed (a transport-level failure, a status
\* >= 400, or a decoding error that is a RequestException), the call has raised a
\* RuntimeError that carries the call's URL and the reason of that fourth attempt, and
\* has returned no value.
C3_ExhaustionRaises ==
    (/\ call.attempt = 4
     /\ \/ FailedByTransportOrStatus(call.resp)
        \/ MalformedOk(call.resp) /\ jsonErrIsRequestException)
    => /\ call.status = "raised"
       /\ call.error.type = "RuntimeError"
       /\ call.error.url = call.url
       /\ call.url # NoUrl
       /\ call.error.last = ReasonOf(call.resp)
       /\ call.result = NoBody

\* C3 witness: a country's discovery call has raised after four failed attempts, the
\* last of them a response with status 400.
C3_Witness ==
    /\ pc = "latest"
    /\ call.status = "raised"
    /\ call.attempt = 4
    /\ call.error = RuntimeError(LatestUrl(countries[i].id), HttpReason(400))

\* s is a non-empty string of the decimal digits 0..9
IsDecimalDigits(s) == Len(s) > 0 /\ \A k \in 1..Len(s) : s[k] \in Digits
\* s is the decimal string of the integer n
IsDecimalNat(s, n) ==
    /\ IsDecimalDigits(s)
    /\ Len(s) = 1 \/ s[1] # "0"
    /\ IntOf(s) = n
IsDecimalOf(s, n) ==
    IF n < 0 THEN Len(s) >= 2 /\ s[1] = "-" /\ IsDecimalNat(Tail(s), 0 - n)
    ELSE IsDecimalNat(s, n)
\* ys is the window of 11 consecutive years that ends at e
IsWindow(ys, e) ==
    /\ Len(ys) = 11
    /\ \A k \in 1..11 : IsDecimalOf(ys[k], e - 11 + k)

\* C4: in every dataset written, years has 11 entries, the decimal strings of
\* latest_year-10, ..., latest_year; the window of the country being processed has
\* that shape too, and its ranged fetches ask for years[0] to years[10].
C4_WindowInvariant ==
    /\ \A id \in DOMAIN files : IsWindow(files[id].years, files[id].latest_year)
    /\ pc = "range" => /\ IsWindow(years, end)
                       /\ call.url.y_start = years[1]
                       /\ call.url.y_end = years[11]

\* C4 witness: a dataset was written whose window 2..12 mixes one- and two-digit years.
C4_Witness ==
    \E id \in DOMAIN files :
        /\ files[id].latest_year = 12
        /\ files[id].years[1] = <<"2">>
        /\ files[id].years[11] = <<"1", "2">>

\* the elements of a sequence
Range(f) == {f[k] : k \in DOMAIN f}

\* C5 as stated: in every dataset written, every key of every series is one of the
\* dataset's years.
C5_Original ==
    \A id \in DOMAIN files :
        \A code \in DOMAIN files[id].series :
            DOMAIN files[id].series[code] \subseteq Range(files[id].years)

\* C6 as stated: in every dataset written, latest_year >= 2000. It is stated for the
\* datasets whose latest_year has 4 digits, so that a year of fewer digits, which
\* extract_year can yield from a token such as "yr12", plays no part.
C6_Original ==
    \A id \in DOMAIN files :
        files[id].latest_year >= 1000 => files[id].latest_year >= 2000

\* C6 amended: whenever main writes a dataset, its latest_year is at least 2000 if the
\* discovery probe yielded no year, and otherwise is the largest year the probe's
\* records yielded, whatever that year is.
C6_Amended ==
    [][files' # files =>
          LET d == files'[countries[i].id]
          IN /\ d.latest_year = end
             /\ found = <<>> => d.latest_year >= 2000
             /\ found # <<>> => d.latest_year = IntOf(found)]_vars

\* C6 witness: a dataset was written with the floor year 2000 as latest_year.
C6_Witness ==
    \E id \in DOMAIN files : files[id].latest_year = 2000

\* C7 as stated: extract_year returns "" or a string of exactly 4 decimal digits.
C7_Original ==
    pc = "parsed" => \/ xout.year = <<>>
                     \/ Len(xout.year) = 4 /\ IsDecimalDigits(xout.year)

\* C8: when the run has ended without a country list, the exit code is not 0, and
\* neither countries.json nor any {ISO3}.json was written; when both resolution paths
\* came back empty the exit code is 2.
C8_FatalWritesNothing ==
    (pc = "done" /\ countries = <<>>)
    => /\ exitCode \in {<<1>>, <<2>>}
       /\ ~countriesFile.written
       /\ DOMAIN files = {}
       /\ stdout = <<>>
       /\ (\E k \in 1..Len(stderr) : stderr[k].error = "Could not derive country list")
             => exitCode = <<2>>

\* C8 witness: the primary path gave nothing, the probe was answered and yielded no
\* code, and the run ended with exit code 2.
C8_Witness ==
    /\ pc = "done"
    /\ exitCode = <<2>>
    /\ seen = <<>>
    /\ countries = <<>>

\* the codes the probe's records yield
ExtractedCodes(rows) == {extract_iso3(rows[k].variable) : k \in 1..Len(rows)} \ {<<>>}
StrictlySortedById(list) ==
    \A k \in 1..(Len(list) - 1) : StrLess(list[k].id, list[k + 1].id)
\* the secondary country list was fetched and read without an exception
SecondaryRead(c) ==
    /\ c.status = "returned"
    /\ c.result.kind = "list"
    /\ c.result.n > 1
    /\ \A m \in 1..Len(c.result.entries) : c.result.entries[m].isdict
\* the names the secondary country list gives a code
SecondaryNames(c, code) ==
    {c.result.entries[m].name : m \in {n \in 1..Len(c.result.entries) :
                                          /\ Truthy(c.result.entries[n].id)
                                          /\ Truthy(c.result.entries[n].name)
                                          /\ c.result.entries[n].id = code}}

\* C9: on the fallback path the probe's records leave each extracted code once in the
\* derived dict; the list returned holds exactly those codes, strictly increasing by
\* id, each with a name of the secondary list when that list was read and names the
\* code, and with the code as name otherwise.
C9_FallbackResult ==
    [][/\ (Returned("probe") /\ call.result.kind = "object")
            => /\ Ids(seen') = ExtractedCodes(call.result.rows)
               /\ NoDuplicateIds(seen')
       /\ (pc = "names" /\ call.status \in {"returned", "raised"})
            => /\ Ids(countries') = Ids(seen)
               /\ NoDuplicateIds(countries')
               /\ StrictlySortedById(countries')
               /\ \A k \in 1..Len(countries') :
                     LET c == countries'[k]
                     IN IF SecondaryRead(call) /\ SecondaryNames(call, c.id) # {}
                        THEN c.name \in SecondaryNames(call, c.id)
                        ELSE c.name = c.id]_vars

\* C9 witness: the probe yielded BRA before AFG, the secondary list named AFG only, and
\* the list returned is AFG with its name, then BRA with its code as name.
C9_Witness ==
    /\ countriesFile.written
    /\ Len(seen) = 2
    /\ seen[1].id = BRA
    /\ countries = <<Country(AFG, NameAFG), Country(BRA, BRA)>>

\* C10 as stated: the resolved country list, and countries.json, hold no two entries
\* with the same id.
C10_Original ==
    /\ NoDuplicateIds(countries)
    /\ NoDuplicateIds(countriesFile.content)

\* the positions of a country array whose element is an object with a non-empty id and a
\* non-empty name
AcceptedIdx(arr) ==
    {k \in 1..Len(arr) : arr[k].isdict /\ arr[k].id \notin {Absent, <<>>}
                                       /\ arr[k].name \notin {Absent, <<>>}}
\* list holds the accepted elements of arr, each once, in the order of arr
IsAcceptedInOrder(list, arr) ==
    /\ Len(list) = Cardinality(AcceptedIdx(arr))
    /\ \A k \in AcceptedIdx(arr) :
          LET pos == Cardinality({m \in AcceptedIdx(arr) : m <= k})
          IN list[pos].id = arr[k].id /\ list[pos].name = arr[k].name
\* the primary call returned a body that is read without an exception: an object, or a
\* list with more than one element, whose country array holds objects only
PrimaryRead(c) ==
    /\ c.status = "returned"
    /\ c.result.kind = "object" \/ (c.result.kind = "list" /\ c.result.n > 1)
    /\ \A m \in 1..Len(c.result.entries) : c.result.entries[m].isdict

\* C11: when the primary call has ended, the resolver returns the accepted entries of its
\* body, in the body's order, if the body was read without an exception and has such an
\* entry, and then requests no probe; otherwise it requests the probe; and the probe is
\* requested at no other point of the run.
C11_PrimaryPath ==
    [][/\ (pc = "primary" /\ call.status \in {"returned", "raised"})
            => IF PrimaryRead(call) /\ AcceptedIdx(call.result.entries) # {}
               THEN /\ IsAcceptedInOrder(countries', call.result.entries)
                    /\ countriesFile'.content = countries'
                    /\ pc' = "latest"
                    /\ seen' = <<>>
               ELSE /\ pc' = "probe"
                    /\ call' = NewCall(ProbeUrl)
                    /\ countries' = <<>>
       /\ (pc # "probe" /\ pc' = "probe")
            => /\ pc = "primary"
               /\ ~(PrimaryRead(call) /\ AcceptedIdx(call.result.entries) # {})]_vars

\* C11 witness: the primary path returned BRA before AFG, the order of the body, and no
\* probe was made.
C11_Witness ==
    /\ pc = "latest"
    /\ i = 1
    /\ seen = <<>>
    /\ countries = <<Country(BRA, NameBRA), Country(AFG, NameAFG)>>
    /\ countriesFile.content = countries

\* the token is "yr", in any case, followed by 4 digits
IsYrThen4Digits(t) ==
    /\ Len(t) >= 6
    /\ t[1] \in {"y", "Y"}
    /\ t[2] \in {"r", "R"}
    /\ \A k \in 3..6 : t[k] \in Digits
\* the positions where an all-digit substring of 4 characters starts
FourDigitStarts(t) == {k \in 1..(Len(t) - 3) : \A m \in k..(k + 3) : t[m] \in Digits}
\* the year a token yields as stated: the 4 digits after "yr", else the first all-digit
\* substring of 4 characters, else nothing
StatedYearOfToken(t) ==
    IF IsYrThen4Digits(t) THEN SubSeq(t, 3, 6)
    ELSE IF FourDigitStarts(t) # {}
         THEN LET k == CHOOSE k \in FourDigitStarts(t) : \A m \in FourDigitStarts(t) : k <= m
              IN SubSeq(t, k, k + 3)
    ELSE <<>>
\* the tuples whose label (name, else concept) contains "time" in any case
TimeLabelled(vars_arr) ==
    {k \in 1..Len(vars_arr) :
        LET label == IF vars_arr[k].name \notin {Absent, <<>>} THEN vars_arr[k].name
                     ELSE IF vars_arr[k].concept \notin {Absent, <<>>} THEN vars_arr[k].concept
                     ELSE <<>>
        IN Contains(Lower(label), <<"t", "i", "m", "e">>)}
\* the position of the tuple whose id is the first candidate, 0 when there is none
StatedChosen(vars_arr) ==
    IF TimeLabelled(vars_arr) # {}
    THEN CHOOSE k \in TimeLabelled(vars_arr) : \A m \in TimeLabelled(vars_arr) : k <= m
    ELSE IF Len(vars_arr) >= 2 THEN 2
    ELSE 0
\* the year of a field: a missing field yields none
StatedYearOfField(x) == IF x = Absent THEN <<>> ELSE StatedYearOfToken(x)
\* the result as stated: the year of the chosen id, else of the first value field that
\* yields one, else ""
StatedYear(vars_arr) ==
    LET c == StatedChosen(vars_arr)
        fromId == IF c = 0 THEN <<>> ELSE StatedYearOfField(vars_arr[c].id)
        hits == {k \in 1..Len(vars_arr) : StatedYearOfField(vars_arr[k].value) # <<>>}
    IN IF fromId # <<>> THEN fromId
       ELSE IF hits # {}
            THEN StatedYearOfField(vars_arr[CHOOSE k \in hits : \A m \in hits : k <= m].value)
       ELSE <<>>

\* C12 as stated: extract_year returns the year of its first candidate - the id of the
\* first tuple labelled "time", else of the tuple at position 1 - which is the 4 digits
\* after "yr" or else the first all-digit substring of 4 characters; the value fields
\* are tried in list order only when that id yields nothing; the result is "" when no
\* candidate yields a year.
C12_Original ==
    pc = "parsed" => xout.year = StatedYear(xin)

\* the positions where a run of 3 uppercase letters starts
UpperRunStarts(t) == {k \in 1..(Len(t) - 2) : \A m \in k..(k + 2) : t[m] \in UpperLetters}
\* the first run of 3 uppercase letters of a field, "" when it has none or is missing
FirstUpperRun(t) ==
    IF t = Absent \/ UpperRunStarts(t) = {} THEN <<>>
    ELSE LET k == CHOOSE k \in UpperRunStarts(t) : \A m \in UpperRunStarts(t) : k <= m
         IN SubSeq(t, k, k + 2)
\* the tuples whose label (name, else concept) contains "country" or "economy" in any case
CountryLabelled(vars_arr) ==
    {k \in 1..Len(vars_arr) :
        LET label == IF vars_arr[k].name \notin {Absent, <<>>} THEN vars_arr[k].name
                     ELSE IF vars_arr[k].concept \notin {Absent, <<>>} THEN vars_arr[k].concept
                     ELSE <<>>
        IN \/ Contains(Lower(label), <<"c", "o", "u", "n", "t", "r", "y">>)
           \/ Contains(Lower(label), <<"e", "c", "o", "n", "o", "m", "y">>)}
\* the field of a labelled tuple that is scanned: the id, or the value when the id is
\* missing or empty
IdOrValue(v) == IF v.id \notin {Absent, <<>>} THEN v.id ELSE v.value
\* the result as stated: the first run of the first labelled tuple that has one, else
\* the first run met when the id, then the value, of every tuple is scanned in list
\* order, else ""
StatedIso3(vars_arr) ==
    LET labelled == {k \in CountryLabelled(vars_arr) : FirstUpperRun(IdOrValue(vars_arr[k])) # <<>>}
        anywhere == {k \in 1..Len(vars_arr) :
                        FirstUpperRun(vars_arr[k].id) # <<>> \/ FirstUpperRun(vars_arr[k].value) # <<>>}
    IN IF labelled # {}
       THEN FirstUpperRun(IdOrValue(vars_arr[CHOOSE k \in labelled : \A m \in labelled : k <= m]))
       ELSE IF anywhere # {}
            THEN LET v == vars_arr[CHOOSE k \in anywhere : \A m \in anywhere : k <= m]
                 IN IF FirstUpperRun(v.id) # <<>> THEN FirstUpperRun(v.id) ELSE FirstUpperRun(v.value)
       ELSE <<>>

\* C13 as stated: extract_iso3 returns the first run of 3 uppercase letters of the first
\* tuple labelled "country" or "economy" whose id (or value) holds one, whatever the
\* other tuples hold; it scans the id and value of every tuple only when no labelled
\* tuple yields a run; its result is "" when nothing matches and is 3 uppercase letters
\* otherwise.
C13_Original ==
    pc = "parsed" => /\ xout.iso3 = StatedIso3(xin)
                     /\ \/ xout.iso3 = <<>>
                        \/ Len(xout.iso3) = 3 /\ \A k \in 1..3 : xout.iso3[k] \in UpperLetters

\* the years extract_year yields over the records
YearsYielded(rows) == {extract_year(rows[k].variable) : k \in 1..Len(rows)} \ {<<>>}
\* year y is numerically at most year r
YearLeq(y, r) == y = r \/ (IsDecimalDigits(y) /\ IsDecimalDigits(r) /\ IntOf(y) <= IntOf(r))

\* C14 as stated: for the records the discovery probe returned and every current year,
\* find_latest_year returns a year, never an error: max(2000, current year - 2) when no
\* record yields a year, and otherwise a yielded year that is numerically at least every
\* yielded year, whatever the order of the records; main takes that year as `end`.
C14_Original ==
    [][(Returned("latest") /\ call.result.kind = "object")
          => LET ys == YearsYielded(call.result.rows)
             IN /\ \A now \in ClockYears("data") :
                      LET r == find_latest_year(call.result.rows, now)
                      IN /\ r # ValueErrorRaised
                         /\ ys = {} => IsDecimalOf(r, IF now - 2 > 2000 THEN now - 2 ELSE 2000)
                         /\ ys # {} => r \in ys /\ \A y \in ys : YearLeq(y, r)
                /\ pc' = "range"
                      => IF ys = {}
                         THEN \E now \in ClockYears("data") :
                                 end' = IF now - 2 > 2000 THEN now - 2 ELSE 2000
                         ELSE \E y \in ys : IsDecimalDigits(y) /\ end' = IntOf(y)]_vars

\* the value of a record converts to a number
IsNumeric(v) == v.kind = "number" \/ (v.kind = "string" /\ IsDecimalDigits(v.s))
NumberOf(v) == IF v.kind = "number" THEN v.n ELSE IntOf(v.s)
\* the records that have a year and a numeric value, by position
Contributing(rows) ==
    {k \in 1..Len(rows) : extract_year(rows[k].variable) # <<>> /\ IsNumeric(rows[k].value)}
\* series is what the claim states for rows: its keys are the years of the contributing
\* records, and each key holds the value of the last contributing record of that year
IsStatedSeries(series, rows) ==
    /\ DOMAIN series = {extract_year(rows[k].variable) : k \in Contributing(rows)}
    /\ \A k \in Contributing(rows) :
          (\A m \in Contributing(rows) :
              extract_year(rows[m].variable) = extract_year(rows[k].variable) => m <= k)
          => series[extract_year(rows[k].variable)] = NumberOf(rows[k].value)

\* C15: whenever a ranged fetch has returned its records, the Series stored for its
\* indicator has as keys exactly the years of the records with a year and a numeric
\* value, a record without a numeric value adds nothing, and each key holds the value of
\* the last such record of its year; a stored Series is not changed by a later fetch,
\* and the dataset written holds the Series as stored.
C15_SparseSeries ==
    [][/\ (Returned("range") /\ call.result.kind = "object")
            => /\ call.url.code \in DOMAIN series_map'
               /\ IsStatedSeries(series_map'[call.url.code], call.result.rows)
               /\ \A code \in DOMAIN series_map \ {call.url.code} :
                     code \in DOMAIN series_map' /\ series_map'[code] = series_map[code]
       /\ files' # files => files'[countries[i].id].series = series_map]_vars

\* C15 witness: a dataset was written whose last indicator holds one key, the last year
\* of the window, with the value 7 of a numeric string.
C15_Witness ==
    \E id \in DOMAIN files :
        LET d == files[id]
        IN /\ DOMAIN d.series["DT.INT.DECT.EX.ZS"] = {d.years[11]}
           /\ d.series["DT.INT.DECT.EX.ZS"][d.years[11]] = 7

\* a ranged fetch of the country being processed has failed: get_json raised, or the
\* body it returned is no object
RangeFetchFailed ==
    /\ pc = "range"
    /\ \/ call.status = "raised"
       \/ call.status = "returned" /\ call.result.kind # "object"
\* the codes of the first n indicators
FirstCodes(n) == {INDICATORS[k] : k \in 1..n}

\* C16: the country's file is opened only by the return of the 13th ranged fetch of the
\* country being processed, after its discovery set the window and its first 12 fetches
\* stored their series, and a dataset is written only into the file so opened; a step
\* that follows a failed ranged fetch writes no file, reports the country, and issues
\* the discovery request of the next country of the list (or ends the run when there is
\* none); the country index never goes back, so no later request is one of the failed
\* country.
C16_NoIndicatorIsolation ==
    [][/\ opened' # opened /\ opened' # <<>>
            => /\ pc = "range"
               /\ call.status = "returned"
               /\ call.url = RangeUrl(countries[i].id, INDICATORS[13], years[1], years[11])
               /\ Len(years) = 11
               /\ DOMAIN series_map = FirstCodes(12)
               /\ DOMAIN series_map' = FirstCodes(13)
               /\ opened' = <<countries[i].id>>
       /\ files' # files
            => /\ opened = <<countries[i].id>>
               /\ DOMAIN files' = DOMAIN files \cup {countries[i].id}
               /\ DOMAIN files'[countries[i].id].series = FirstCodes(13)
               /\ \A id \in DOMAIN files \ {countries[i].id} : files'[id] = files[id]
       /\ RangeFetchFailed
            => /\ files' = files
               /\ stdout' = stdout
               /\ Len(stderr') = Len(stderr) + 1
               /\ stderr'[Len(stderr')].i = i
               /\ IF i < Len(countries)
                  THEN /\ pc' = "latest"
                       /\ i' = i + 1
                       /\ call' = NewCall(LatestUrl(countries[i + 1].id))
                  ELSE pc' = "done" /\ exitCode' = <<0>>
       /\ i' >= i
       /\ pc' = "range" => call'.url.iso3 = countries[i'].id]_vars

\* C16 witness: the fifth ranged fetch of the first of two countries has raised after
\* four fetches stored their series, and no file is written.
C16_Witness ==
    /\ pc = "range"
    /\ call.status = "raised"
    /\ call.url.code = INDICATORS[5]
    /\ DOMAIN series_map = FirstCodes(4)
    /\ i = 1
    /\ Len(countries) = 2
    /\ files = EmptyMap
    /\ opened = <<>>

\* the {ISO3}.json files this run has created or rewritten
OnDisk == DOMAIN files \cup {opened[k] : k \in 1..Len(opened)}
\* the file holds a dataset with the 13 indicator keys: its write has ended since it
\* was last opened
HoldsAllIndicators(id) ==
    /\ opened # <<id>>
    /\ id \in DOMAIN files
    /\ DOMAIN files[id].series = FirstCodes(Len(INDICATORS))
\* countries are taken in list order, and within a country the discovery request comes
\* first and the 13 ranged requests follow in the order of INDICATORS
InListOrder ==
    /\ i' \in {i, i + 1}
    /\ pc' \in {"latest", "range"} => call'.url.iso3 = countries'[i'].id
    /\ (pc' = "latest" /\ (pc # "latest" \/ i' # i))
          => i' = i + 1 /\ call' = NewCall(LatestUrl(countries'[i'].id))
    /\ (pc' = "range" /\ pc # "range")
          => pc = "latest" /\ i' = i /\ call'.url.code = INDICATORS[1] /\ call'.attempt = 0
    /\ (pc' = "range" /\ pc = "range")
          => /\ i' = i
             /\ \/ call'.url = call.url
                \/ /\ CodeIndex(call'.url.code) = CodeIndex(call.url.code) + 1
                   /\ call.status = "returned"
    /\ pc' = "dump" /\ pc # "dump" => pc = "range" /\ call.url.code = INDICATORS[Len(INDICATORS)]
\* countries.json has been written when a country is being processed
CatalogFirst == pc \in {"latest", "range", "dump"} => countriesFile.written

\* C17 as stated: countries are processed in list order, discovery then the 13
\* indicators in list order; countries.json is written before any per-country request;
\* and at every point of the run every {ISO3}.json file the run has created or rewritten
\* is the file of a country whose processing has finished and holds all 13 indicator
\* keys.
C17_Original ==
    [][/\ InListOrder
       /\ CatalogFirst'
       /\ \A id \in OnDisk' :
             /\ id \in {countries'[k].id : k \in Processed'}
             /\ HoldsAllIndicators(id)']_vars

\* the get_json call has raised because all its attempts failed
Exhausted == call.status = "raised" /\ call.error.type = "RuntimeError"

\* C18 as stated: within one get_json call every delay follows a failed attempt that
\* another attempt comes after, its index is the index of that attempt, and a call that
\* raised after 4 failed attempts has taken 3 delays; one pacing delay has been taken
\* for every series fetched for the country being processed.
C18_Original ==
    /\ Len(call.delays) <= call.attempt
    /\ \A k \in 1..Len(call.delays) :
          call.delays[k] \in 0..(call.attempt - 1) /\ call.delays[k] + 1 < max_attempts
    /\ Exhausted => call.attempt = max_attempts /\ Len(call.delays) = max_attempts - 1
    /\ pc \in {"range", "dump"} => pacing = Cardinality(DOMAIN series_map)

ResolverSites == {"primary", "probe", "names"}
CountrySites == {"latest", "range", "dump"}
\* what is left of the run, most significant first: the phase (resolution, countries,
\* ended), the countries after the current one, the get_json calls of the phase that
\* have not begun, and the steps the call in progress can still take
Measure ==
    <<IF pc \in ResolverSites THEN 2 ELSE IF pc \in CountrySites THEN 1 ELSE 0,
      IF pc \in CountrySites THEN Len(countries) - i ELSE 0,
      IF pc = "primary" THEN 2
      ELSE IF pc = "probe" THEN 1
      ELSE IF pc = "latest" THEN Len(INDICATORS)
      ELSE IF pc = "range" THEN Len(INDICATORS) - CodeIndex(call.url.code)
      ELSE 0,
      IF pc \notin ResolverSites \cup {"latest", "range"} THEN 0
      ELSE IF call.status = "running" THEN 2 + max_attempts - call.attempt
      ELSE 1>>
IsMeasure(m) == \A k \in 1..Len(m) : m[k] \in Nat
\* lexicographic order
LexLess(a, b) == \E k \in 1..Len(a) : a[k] < b[k] /\ \A j \in 1..(k - 1) : a[j] = b[j]
\* the run is at a request, at the return or the raise of a call, or at the write
CanStep ==
    \/ Running
    \/ pc \in ResolverSites \cup {"latest", "range"} /\ call.status \in {"returned", "raised"}
    \/ pc = "dump"

\* C19: every step of the run lowers a measure that is a tuple of naturals in
\* lexicographic order, and a run that has not ended can take a step, so every run ends
\* at main's return or at a fatal exit; country resolution has then sent at most 3 * 4
\* requests and each country at most 14 * 4; and when the run has ended every country
\* of the list has been reported as completed or as failed.
C19_Terminates ==
    [][/\ IsMeasure(Measure) /\ IsMeasure(Measure')
       /\ LexLess(Measure', Measure)
       /\ pc' # "done" => CanStep'
       /\ pc' \in ResolverSites => sent' <= 3 * max_attempts
       /\ pc' \in CountrySites => sent' <= (1 + Len(INDICATORS)) * max_attempts
       /\ pc' = "done"
            => /\ exitCode' \in {<<0>>, <<1>>, <<2>>}
               /\ sent' <= (1 + Len(INDICATORS)) * max_attempts
               /\ exitCode' # <<0>> => countries' = <<>> /\ sent' <= 3 * max_attempts
               /\ \A k \in 1..Len(countries') : k \in FailedIdx' \cup CompletedIdx']_vars

\* C19 witness: a run over two countries has ended with status 0; the first country
\* was completed, the second was reported as failed after 56 requests, the last 4 of
\* them the failed attempts of its 13th ranged fetch.
C19_Witness ==
    /\ pc = "done"
    /\ exitCode = <<0>>
    /\ Len(countries) = 2
    /\ CompletedIdx = {1}
    /\ FailedIdx = {2}
    /\ sent = (1 + Len(INDICATORS)) * max_attempts

====
